---- MODULE Spec2Model ----
(***************************************************************************)
(* Model of satosa/attribute_mapping.py: the AttributeMapper that converts *)
(* attribute records between the internal and the external formats.        *)
(*                                                                         *)
(* Python strings that the code splits or searches (external attribute     *)
(* names, attribute values, rendered template output) are sequences of     *)
(* one-character strings.  Internal attribute names and profile names are  *)
(* only ever used as dictionary keys and are atomic strings.               *)
(* Python values are tagged records [t, v] so that the isinstance and      *)
(* truthiness tests of the code can be modelled.                           *)
(***************************************************************************)
EXTENDS Integers, Sequences, FiniteSets, TLC

\* ------------------------------------------------------------------ bounds
\* longest list of external names configured for one (attribute, profile)
MaxNames == 2
\* longest list of values in an attribute record
MaxVals == 2

\* ------------------------------------------------------- Python values
PyNone == [t |-> "none", v |-> <<>>]
PyStr(s) == [t |-> "str", v |-> s]
PyList(l) == [t |-> "list", v |-> l]
PyDict(f) == [t |-> "dict", v |-> f]

\* bool(x) of a Python value
Truthy(x) ==
  CASE x.t = "none" -> FALSE
    [] x.t = "str" -> Len(x.v) > 0
    [] x.t = "list" -> Len(x.v) > 0
    [] x.t = "dict" -> DOMAIN x.v # {}

\* what a call gives back: a value, or the exception it raises
Return(v) == [exc |-> "None", val |-> v]
Raise(e) == [exc |-> e, val |-> <<>>]

\* c in s
Contains(s, c) == \E i \in 1..Len(s) : s[i] = c

\* s.split(sep) for a one-character sep
RECURSIVE Split(_, _)
Split(s, sep) ==
  IF ~Contains(s, sep) THEN <<s>>
  ELSE LET i == CHOOSE k \in 1..Len(s) : s[k] = sep /\ \A j \in 1..(k - 1) : s[j] # sep
       IN <<SubSeq(s, 1, i - 1)>> \o Split(SubSeq(s, i + 1, Len(s)), sep)

\* s.partition(sep): <<head, sep, tail>>
Partition(s, sep) ==
  IF ~Contains(s, sep) THEN <<s, <<>>, <<>>>>
  ELSE LET i == CHOOSE k \in 1..Len(s) : s[k] = sep /\ \A j \in 1..(k - 1) : s[j] # sep
       IN <<SubSeq(s, 1, i - 1), <<sep>>, SubSeq(s, i + 1, Len(s))>>

\* Mako filter: the part after the first "@"
scope(s) ==
  IF ~Contains(s, "@") THEN Raise("ValueError")
  ELSE Return(Partition(s, "@")[3])

separator == "."
multivalue_separator == ";"

\* ------------------------------------- ordered dictionaries of the config
\* a dict iterated by the code is a sequence of [name, mappings] items
HasKey(d, k) == \E i \in 1..Len(d) : d[i].name = k
Item(d, k) == d[CHOOSE i \in 1..Len(d) : d[i].name = k].mappings

\* d[k] = val on a function-valued dict
Store(d, k, val) == [x \in DOMAIN d \cup {k} |-> IF x = k THEN val ELSE d[x]]

\* ----------------------------------------------------------- __init__
\* for external_attribute_name in external_attribute_names: table[profile][name] = internal
RECURSIVE InvertNames(_, _, _, _)
InvertNames(table, profile, names, internal) ==
  IF names = <<>> THEN table
  ELSE LET row == IF profile \in DOMAIN table THEN table[profile] ELSE <<>>
       IN InvertNames(Store(table, profile, Store(row, Head(names), internal)),
                      profile, Tail(names), internal)

\* for profile, external_attribute_names in mappings.items()
RECURSIVE InvertProfiles(_, _, _, _)
InvertProfiles(table, profiles, mappings, internal) ==
  IF profiles = {} THEN table
  ELSE LET p == CHOOSE q \in profiles : TRUE
       IN InvertProfiles(InvertNames(table, p, mappings[p], internal),
                         profiles \ {p}, mappings, internal)

\* for internal_attribute_name, mappings in self.from_internal_attributes.items()
RECURSIVE BuildToInternal(_, _)
BuildToInternal(table, attributes) ==
  IF attributes = <<>> THEN table
  ELSE BuildToInternal(InvertProfiles(table, DOMAIN Head(attributes).mappings,
                                      Head(attributes).mappings, Head(attributes).name),
                       Tail(attributes))

\* ------------------------------------------- _get_nested_attribute_value
\* for key in keys: d = d.get(key); if d is None: return None
\* d.get exists on a mapping only: on a list or a string Python raises AttributeError
RECURSIVE GetNestedLoop(_, _)
GetNestedLoop(keys, d) ==
  IF keys = <<>> THEN Return(d)
  ELSE IF d.t # "dict" THEN Raise("AttributeError")
  ELSE LET got == IF Head(keys) \in DOMAIN d.v THEN d.v[Head(keys)] ELSE PyNone
       IN IF got.t = "none" THEN Return(PyNone) ELSE GetNestedLoop(Tail(keys), got)

_get_nested_attribute_value(nested_key, data) ==
  GetNestedLoop(Split(nested_key, separator), data)

\* ------------------------- _collate_attribute_values_by_priority_order
\* mutant: the values found are put in front of those already collected
CollateValue_Prepend(result, attr_val) ==
  IF attr_val.t = "list" THEN attr_val.v \o result
  ELSE IF Truthy(attr_val) THEN <<attr_val>> \o result
  ELSE result

\* if isinstance(attr_val, list): result.extend(attr_val) elif attr_val: result.append(attr_val)
CollateValue(result, attr_val) ==
  IF attr_val.t = "list" THEN result \o attr_val.v
  ELSE IF Truthy(attr_val) THEN Append(result, attr_val)
  ELSE result

RECURSIVE CollateLoop(_, _, _)
CollateLoop(attribute_names, data, result) ==
  IF attribute_names = <<>> THEN Return(result)
  ELSE LET got == _get_nested_attribute_value(Head(attribute_names), data)
       IN IF got.exc # "None" THEN got
          ELSE CollateLoop(Tail(attribute_names), data, CollateValue(result, got.val))

_collate_attribute_values_by_priority_order(attribute_names, data) ==
  CollateLoop(attribute_names, data, <<>>)

\* ------------------------------------------------------------ templates
\* str(x) and repr(x) of Python.  The strings of the model hold no quote and no
\* backslash, so repr of a string is the string between single quotes.  A dict
\* is printed in key order; the nested mappings of the model have at most one key.
RECURSIVE PyRepr(_), ReprItems(_), ReprEntries(_, _)
PyRepr(x) ==
  CASE x.t = "none" -> <<"N", "o", "n", "e">>
    [] x.t = "str" -> <<"'">> \o x.v \o <<"'">>
    [] x.t = "list" -> <<"[">> \o ReprItems(x.v) \o <<"]">>
    [] x.t = "dict" -> <<"{">> \o ReprEntries(x.v, DOMAIN x.v) \o <<"}">>

ReprItems(l) ==
  IF l = <<>> THEN <<>>
  ELSE IF Len(l) = 1 THEN PyRepr(l[1])
  ELSE PyRepr(l[1]) \o <<",", " ">> \o ReprItems(Tail(l))

ReprEntries(f, keys) ==
  IF keys = {} THEN <<>>
  ELSE LET k == CHOOSE q \in keys : TRUE
           one == PyRepr(PyStr(k)) \o <<":", " ">> \o PyRepr(f[k])
       IN IF keys = {k} THEN one ELSE one \o <<",", " ">> \o ReprEntries(f, keys \ {k})

PyToStr(x) == IF x.t = "str" THEN x.v ELSE PyRepr(x)

\* The Mako expressions the templates of the model use.  A template is a sequence
\* of pieces: one literal character, or one whole ${...} expression.
MakoExpressions ==
  ("${A[0]}" :> [var |-> "A", subscript |-> TRUE, filter |-> "str"]) @@
  ("${B[0]}" :> [var |-> "B", subscript |-> TRUE, filter |-> "str"]) @@
  ("${B[0] | scope}" :> [var |-> "B", subscript |-> TRUE, filter |-> "scope"]) @@
  ("${C}" :> [var |-> "C", subscript |-> FALSE, filter |-> "str"])

\* "$" in t
LooksLikeTemplate(t) ==
  \E i \in 1..Len(t) : t[i] = "$" \/ t[i] \in DOMAIN MakoExpressions

\* ${var}, ${var[0]}, ${var[0] | scope}: a name that is not bound is Mako's UNDEFINED,
\* whose str() raises NameError and which cannot be subscripted (TypeError);
\* the default filter str is applied before the filter of the expression.
MakoEval(e, data) ==
  IF e.var \notin DOMAIN data
  THEN (IF e.subscript THEN Raise("TypeError") ELSE Raise("NameError"))
  ELSE LET bound == data[e.var]
       IN IF e.subscript /\ Len(bound.v) = 0 THEN Raise("IndexError")
          ELSE LET text == PyToStr(IF e.subscript THEN bound.v[1] ELSE bound)
               IN IF e.filter = "scope" THEN scope(text) ELSE Return(text)

\* t.render(**data): the rendered pieces, concatenated
RECURSIVE MakoRender(_, _, _)
MakoRender(template, data, out) ==
  IF template = <<>> THEN Return(PyStr(out))
  ELSE IF Head(template) \in DOMAIN MakoExpressions
  THEN LET got == MakoEval(MakoExpressions[Head(template)], data)
       IN IF got.exc # "None" THEN got
          ELSE MakoRender(Tail(template), data, out \o got.val)
  ELSE MakoRender(Tail(template), data, Append(out, Head(template)))

StrList(pieces) == [i \in 1..Len(pieces) |-> PyStr(pieces[i])]

\* except (NameError, TypeError): return []
CaughtByRender == {"NameError", "TypeError"}

_render_attribute_template(template, data) ==
  LET _rendered == MakoRender(template, data, <<>>)
  IN IF _rendered.exc \in CaughtByRender THEN Return(<<>>)
     ELSE IF _rendered.exc # "None" THEN _rendered
     ELSE IF _rendered.val.t # "str" THEN Return(<<>>)
     ELSE Return(StrList(Split(_rendered.val.v, multivalue_separator)))

\* templates = [t for t in external_attribute_name if "$" in t]
RECURSIVE SelectTemplates(_)
SelectTemplates(names) ==
  IF names = <<>> THEN <<>>
  ELSE IF LooksLikeTemplate(Head(names)) THEN <<Head(names)>> \o SelectTemplates(Tail(names))
  ELSE SelectTemplates(Tail(names))

\* list(chain.from_iterable(render(t) for t in templates))
RECURSIVE RenderAll(_, _, _)
RenderAll(templates, data, flat) ==
  IF templates = <<>> THEN Return(flat)
  ELSE LET got == _render_attribute_template(Head(templates), data)
       IN IF got.exc # "None" THEN got
          ELSE RenderAll(Tail(templates), data, flat \o got.val)

\* attribute_values = flattened or internal_dict.get(name); if attribute_values: insert
TemplateValue(internal_dict, internal_attribute_name, flattened) ==
  LET attribute_values ==
        IF Len(flattened) > 0 THEN PyList(flattened)
        ELSE IF internal_attribute_name \in DOMAIN internal_dict
        THEN internal_dict[internal_attribute_name]
        ELSE PyNone
  IN IF Truthy(attribute_values)
     THEN Store(internal_dict, internal_attribute_name, attribute_values)
     ELSE internal_dict

RECURSIVE TemplateLoop(_, _, _)
TemplateLoop(items, attribute_profile, internal_dict) ==
  IF items = <<>> THEN Return(internal_dict)
  ELSE IF attribute_profile \notin DOMAIN Head(items).mappings
  THEN TemplateLoop(Tail(items), attribute_profile, internal_dict)
  ELSE LET got == RenderAll(SelectTemplates(Head(items).mappings[attribute_profile]),
                            internal_dict, <<>>)
       IN IF got.exc # "None" THEN got
          ELSE TemplateLoop(Tail(items), attribute_profile,
                            TemplateValue(internal_dict, Head(items).name, got.val))

\* template_attributes is <<>> both for None and for an empty dict: `not x` holds of both
_handle_template_attributes(template_attributes, attribute_profile, internal_dict) ==
  IF template_attributes = <<>> THEN Return(internal_dict)
  ELSE TemplateLoop(template_attributes, attribute_profile, internal_dict)

\* ---------------------------------------------------------- to_internal
\* mutant: the key is inserted without the test for values
InsertIfValues_Always(internal_dict, internal_attribute_name, attribute_values) ==
  Store(internal_dict, internal_attribute_name, PyList(attribute_values))

\* if attribute_values: internal_dict[internal_attribute_name] = attribute_values
InsertIfValues(internal_dict, internal_attribute_name, attribute_values) ==
  IF Len(attribute_values) > 0
  THEN Store(internal_dict, internal_attribute_name, PyList(attribute_values))
  ELSE internal_dict

\* if attribute_profile not in mapping: continue
HasMapping(mapping, attribute_profile) == attribute_profile \in DOMAIN mapping

\* mutant: an attribute without a mapping for the profile is mapped with the
\* names of another of its profiles instead of being skipped
RECURSIVE ToInternalLoop_AnyProfile(_, _, _, _)
ToInternalLoop_AnyProfile(items, attribute_profile, external_dict, internal_dict) ==
  IF items = <<>> THEN Return(internal_dict)
  ELSE IF DOMAIN Head(items).mappings = {}
  THEN ToInternalLoop_AnyProfile(Tail(items), attribute_profile, external_dict, internal_dict)
  ELSE LET used == IF HasMapping(Head(items).mappings, attribute_profile)
                   THEN attribute_profile
                   ELSE CHOOSE q \in DOMAIN Head(items).mappings : TRUE
           got == _collate_attribute_values_by_priority_order(
                     Head(items).mappings[used], external_dict)
       IN IF got.exc # "None" THEN got
          ELSE ToInternalLoop_AnyProfile(Tail(items), attribute_profile, external_dict,
                                         InsertIfValues(internal_dict, Head(items).name, got.val))

RECURSIVE ToInternalLoop(_, _, _, _)
ToInternalLoop(items, attribute_profile, external_dict, internal_dict) ==
  IF items = <<>> THEN Return(internal_dict)
  ELSE IF ~HasMapping(Head(items).mappings, attribute_profile)
  THEN ToInternalLoop(Tail(items), attribute_profile, external_dict, internal_dict)
  ELSE LET got == _collate_attribute_values_by_priority_order(
                     Head(items).mappings[attribute_profile], external_dict)
       IN IF got.exc # "None" THEN got
          ELSE ToInternalLoop(Tail(items), attribute_profile, external_dict,
                              InsertIfValues(internal_dict, Head(items).name, got.val))

to_internal(attributes, templates, attribute_profile, external_dict) ==
  LET plain == ToInternalLoop(attributes, attribute_profile, external_dict, <<>>)
  IN IF plain.exc # "None" THEN plain
     ELSE _handle_template_attributes(templates, attribute_profile, plain.val)

\* -------------------------------------------------------- from_internal
\* called with at least one name: the caller passes the segments after the first
RECURSIVE _create_nested_attribute_value(_, _)
_create_nested_attribute_value(nested_attribute_names, value) ==
  IF Len(nested_attribute_names) = 1
  THEN PyDict(nested_attribute_names[1] :> value)
  ELSE PyDict(nested_attribute_names[1] :>
                _create_nested_attribute_value(Tail(nested_attribute_names), value))

\* mutant: the nested value is built from all the segments, the first included
WriteExternal_AllSegments(external_dict, external_attribute_name, value) ==
  IF Contains(external_attribute_name, separator)
  THEN LET nested_attribute_names == Split(external_attribute_name, separator)
       IN Store(external_dict, nested_attribute_names[1],
                _create_nested_attribute_value(nested_attribute_names, value))
  ELSE Store(external_dict, external_attribute_name, value)

\* the write of one attribute under its external name
WriteExternal(external_dict, external_attribute_name, value) ==
  IF Contains(external_attribute_name, separator)
  THEN LET nested_attribute_names == Split(external_attribute_name, separator)
       IN Store(external_dict, nested_attribute_names[1],
                _create_nested_attribute_value(Tail(nested_attribute_names), value))
  ELSE Store(external_dict, external_attribute_name, value)

\* internal_dict is iterated in insertion order: a sequence of [name, value] items
RECURSIVE FromInternalLoop(_, _, _, _)
FromInternalLoop(attributes, attribute_profile, items, external_dict) ==
  IF items = <<>> THEN Return(PyDict(external_dict))
  ELSE IF ~HasKey(attributes, Head(items).name)
  THEN FromInternalLoop(attributes, attribute_profile, Tail(items), external_dict)
  ELSE IF attribute_profile \notin DOMAIN Item(attributes, Head(items).name)
  THEN FromInternalLoop(attributes, attribute_profile, Tail(items), external_dict)
  ELSE LET external_attribute_names == Item(attributes, Head(items).name)[attribute_profile]
       IN IF external_attribute_names = <<>> THEN Raise("IndexError")
          ELSE FromInternalLoop(attributes, attribute_profile, Tail(items),
                 WriteExternal(external_dict, external_attribute_names[1], Head(items).value))

from_internal(attributes, attribute_profile, internal_dict) ==
  FromInternalLoop(attributes, attribute_profile, internal_dict, <<>>)

\* --------------------------------------------------- to_internal_filter
\* self.to_internal_attributes is a defaultdict(dict): reading a profile that is
\* not a key stores an empty dict under it and raises no KeyError
ProfileLookup(table, attribute_profile) ==
  IF attribute_profile \in DOMAIN table THEN table
  ELSE Store(table, attribute_profile, <<>>)

\* mutant: the loop ends at the first external name without an entry
FilterNames_StopAtUnmapped(profile_mapping, external_attribute_names) ==
  {profile_mapping[external_attribute_names[i]] :
     i \in {j \in 1..Len(external_attribute_names) :
              \A k \in 1..j : external_attribute_names[k] \in DOMAIN profile_mapping}}

\* the set of internal names of the external names that have an entry
FilterNames(profile_mapping, external_attribute_names) ==
  {profile_mapping[external_attribute_names[i]] :
     i \in {j \in 1..Len(external_attribute_names) :
              external_attribute_names[j] \in DOMAIN profile_mapping}}

\* list(s): the elements of a set, once each, in an order the code does not fix
ListsOfSet(S) ==
  {l \in [1..Cardinality(S) -> S] : \A i, j \in 1..Cardinality(S) : l[i] = l[j] => i = j}

\* ------------------------------------------------------------ universes
Profiles == {"saml", "openid"}

\* attribute values: the empty string, an unscoped and a scoped string
Strs == {<<>>, <<"v">>, <<"u", "@", "d">>}
\* elements of value lists
ListStrs == {<<>>, <<"u", "@", "d">>}

SeqsUpTo(S, n) == UNION {[1..k -> S] : k \in 0..n}

Lists == {PyList(l) : l \in SeqsUpTo({PyStr(s) : s \in ListStrs}, MaxVals)}
Scalars == {PyStr(s) : s \in Strs}

\* external attribute names: two flat names and one nested path
ExtNames == {<<"x">>, <<"y">>, <<"x", ".", "y">>}
NameLists == SeqsUpTo(ExtNames, MaxNames)

\* nested mappings under the key x: empty, or one key y with a scalar, an empty
\* list or a list of one value
NestedDicts ==
  {PyDict(<<>>)} \cup
  {PyDict(<<"y">> :> val) : val \in Scalars \cup {l \in Lists : Len(l.v) <= 1}}

\* external records: x and y, each absent or present
ExternalRecords ==
  {PyDict([k \in keys |-> IF k = <<"x">> THEN vx ELSE vy]) :
     keys \in SUBSET {<<"x">>, <<"y">>},
     vx \in Scalars \cup Lists \cup NestedDicts,
     vy \in Scalars \cup Lists}

\* internal records: up to two of the attributes A, B, C (C is never configured)
InternalValues == {PyList(<<PyStr(s)>>) : s \in Strs} \cup {PyList(<<>>)}
InternalRecords ==
  {<<>>} \cup
  {<<[name |-> n, value |-> val]>> : n \in {"A", "B", "C"}, val \in InternalValues} \cup
  UNION {{<<[name |-> n1, value |-> v1], [name |-> n2, value |-> v2]>> :
            n2 \in {"A", "B", "C"} \ {n1},
            v1 \in InternalValues, v2 \in InternalValues} : n1 \in {"A", "B"}}

\* names given to the filter: the configured names and one no profile maps
FilterNameLists == SeqsUpTo(ExtNames \cup {<<"z">>}, MaxNames)

Entry(n, m) == [name |-> n, mappings |-> m]

\* configurations without templates: A with any list of names for saml, or with
\* openid, or with no profile; B absent, or with at most one name
MappingsA ==
  {("saml" :> l) : l \in NameLists} \cup
  {<<>>, ("openid" :> <<<<"x">>>>), ("saml" :> <<<<"x">>>>) @@ ("openid" :> <<<<"y">>>>)}
MappingsB ==
  {("saml" :> l) : l \in {<<>>} \cup {<<n>> : n \in ExtNames}} \cup
  {("openid" :> <<<<"x">>>>)}

PlainAttributes ==
  {<<Entry("A", mA)>> : mA \in MappingsA} \cup
  {<<Entry("A", mA), Entry("B", mB)>> : mA \in MappingsA, mB \in MappingsB} \cup
  {<<Entry("B", mB), Entry("A", mA)>> : mA \in MappingsA, mB \in MappingsB}

\* templates: first value of B, scope of the first value of B, an undefined name,
\* two values joined by the multivalue separator; and a plain name, which is no template
Templates ==
  {<<"${B[0]}">>, <<"${B[0] | scope}">>, <<"${C}">>, <<"${A[0]}", ";", "${B[0]}">>, <<"x">>}

TemplateAttributes ==
  {<<Entry(n, ("saml" :> tl))>> : n \in {"A", "C"}, tl \in SeqsUpTo(Templates, MaxNames)} \cup
  {<<Entry("A", ("openid" :> <<<<"${B[0]}">>>>))>>,
   <<Entry("C", ("saml" :> <<<<"${B[0]}">>>>)), Entry("A", ("saml" :> <<<<"${C}">>>>))>>}

\* the attributes of the configurations with templates: A from x, B from y
TemplatedAttributes ==
  {<<Entry("A", ("saml" :> <<<<"x">>>>)), Entry("B", ("saml" :> <<<<"y">>>>))>>}

\* ---------------------------------------------------------------- state
VARIABLES
  from_internal_attributes,  \* internal_attributes["attributes"]
  template_attributes,       \* internal_attributes.get("template_attributes")
  to_internal_attributes,    \* the inverse table, a defaultdict(dict)
  op,                        \* the operation last called, "idle" once its result is taken
  attribute_profile,         \* the profile it was called with
  arg,                       \* its second argument
  ret                        \* what it returned or raised

vars == <<from_internal_attributes, template_attributes, to_internal_attributes,
          op, attribute_profile, arg, ret>>

config == <<from_internal_attributes, template_attributes>>

\* AttributeMapper(internal_attributes)
Init ==
  /\ \/ /\ from_internal_attributes \in PlainAttributes
        /\ template_attributes = <<>>
     \/ /\ from_internal_attributes \in TemplatedAttributes
        /\ template_attributes \in TemplateAttributes
  /\ to_internal_attributes = BuildToInternal(<<>>, from_internal_attributes)
  /\ op = "idle"
  /\ attribute_profile = "saml"
  /\ arg = <<>>
  /\ ret = Return(<<>>)

ToInternalFilter ==
  /\ op = "idle"
  /\ \E p \in Profiles, names \in FilterNameLists :
       /\ to_internal_attributes' = ProfileLookup(to_internal_attributes, p)
       /\ \E l \in ListsOfSet(FilterNames(to_internal_attributes'[p], names)) :
            ret' = Return(l)
       /\ attribute_profile' = p
       /\ arg' = names
  /\ op' = "to_internal_filter"
  /\ UNCHANGED config

ToInternal ==
  /\ op = "idle"
  /\ \E p \in Profiles, external_dict \in ExternalRecords :
       /\ ret' = to_internal(from_internal_attributes, template_attributes, p, external_dict)
       /\ attribute_profile' = p
       /\ arg' = external_dict
  /\ op' = "to_internal"
  /\ UNCHANGED <<config, to_internal_attributes>>

FromInternal ==
  /\ op = "idle"
  /\ \E p \in Profiles, internal_dict \in InternalRecords :
       /\ ret' = from_internal(from_internal_attributes, p, internal_dict)
       /\ attribute_profile' = p
       /\ arg' = internal_dict
  /\ op' = "from_internal"
  /\ UNCHANGED <<config, to_internal_attributes>>

\* the caller takes the result; the mapper is ready for the next call
TakeResult ==
  /\ op # "idle"
  /\ op' = "idle"
  /\ attribute_profile' = "saml"
  /\ arg' = <<>>
  /\ ret' = Return(<<>>)
  /\ UNCHANGED <<config, to_internal_attributes>>

Next == ToInternalFilter \/ ToInternal \/ FromInternal \/ TakeResult

Spec == Init /\ [][Next]_vars

\* ======================================================= properties
\* the attributes with an entry for the profile of the call
MappedAttributes ==
  {from_internal_attributes[i].name :
     i \in {j \in 1..Len(from_internal_attributes) :
              attribute_profile \in DOMAIN from_internal_attributes[j].mappings}}
TemplateTargets ==
  {template_attributes[i].name :
     i \in {j \in 1..Len(template_attributes) :
              attribute_profile \in DOMAIN template_attributes[j].mappings}}
NamesOf(a) == Item(from_internal_attributes, a)[attribute_profile]

\* the result of the plain mapping pass of the to_internal call of this state
PlainPass == ToInternalLoop(from_internal_attributes, attribute_profile, arg, <<>>)

\* path lookup as the specification states it: missing when a segment is absent
\* or the value reached is no mapping
RECURSIVE Resolve(_, _)
Resolve(segments, d) ==
  IF segments = <<>> THEN d
  ELSE IF d.t # "dict" THEN PyNone
  ELSE IF Head(segments) \notin DOMAIN d.v THEN PyNone
  ELSE Resolve(Tail(segments), d.v[Head(segments)])

\* the value wrapped under the segments, built from the innermost segment outward
RECURSIVE Wrap(_, _)
Wrap(segments, value) ==
  IF segments = <<>> THEN value
  ELSE Wrap(SubSeq(segments, 1, Len(segments) - 1),
            PyDict(segments[Len(segments)] :> value))

IsPrefix(s, t) == Len(s) <= Len(t) /\ SubSeq(t, 1, Len(s)) = s

\* ---- C1
\* C1: the inverse table is in every reachable state the table that construction
\* built from the configuration: no call adds, removes or changes an entry or a
\* profile key.
C1_TableImmutable ==
  to_internal_attributes = BuildToInternal(<<>>, from_internal_attributes)

\* ---- C3
\* C3: from_internal returns a record and never raises, whatever the profile, the
\* record and the configuration, an empty list of external names included.
C3_FromInternalNeverRaises ==
  op = "from_internal" => ret.exc = "None"

\* ---- C10
\* C10: the nested-path Get never raises: for every external name and every
\* external record it returns the value found or the missing signal.
C10_GetNeverRaises ==
  op = "to_internal" =>
    \A a \in MappedAttributes : \A i \in 1..Len(NamesOf(a)) :
      /\ _get_nested_attribute_value(NamesOf(a)[i], arg).exc = "None"
      /\ _get_nested_attribute_value(NamesOf(a)[i], arg).val
           = Resolve(Split(NamesOf(a)[i], separator), arg)

\* ---- C2
\* C2: in to_internal every template rendering failure is caught: once the plain
\* mapping pass has its record, to_internal returns a record, and the attributes
\* that are no template target have the keys and values of the plain pass.
C2_RenderFailuresCaught ==
  (op = "to_internal" /\ PlainPass.exc = "None") =>
    /\ ret.exc = "None"
    /\ DOMAIN ret.val \ TemplateTargets = DOMAIN PlainPass.val \ TemplateTargets
    /\ \A a \in DOMAIN PlainPass.val \ TemplateTargets : ret.val[a] = PlainPass.val[a]

\* ---- C5
\* the record the template pass holds when it reaches the i-th template attribute
DataBefore(i) ==
  TemplateLoop(SubSeq(template_attributes, 1, i - 1), attribute_profile, PlainPass.val).val

RendersEmpty(t, data) ==
  LET r == MakoRender(t, data, <<>>)
  IN r.exc \in CaughtByRender \/ (r.exc = "None" /\ r.val.v = <<>>)

\* C5: when every template of a template attribute renders to empty output (a
\* successful rendering to the empty string included), the value the plain
\* mapping pass set for the attribute is in the result unchanged.
C5_TemplateFallback ==
  (op = "to_internal" /\ ret.exc = "None") =>
    \A i \in 1..Len(template_attributes) :
      LET a == template_attributes[i].name
          m == template_attributes[i].mappings
      IN (/\ attribute_profile \in DOMAIN m
          /\ a \in DOMAIN PlainPass.val
          /\ \A k \in 1..Len(m[attribute_profile]) :
               LooksLikeTemplate(m[attribute_profile][k]) =>
                 RendersEmpty(m[attribute_profile][k], DataBefore(i)))
         => ret.val[a] = PlainPass.val[a]

\* ---- C9
\* C9: no key of a to_internal result maps to an empty sequence, and an attribute
\* whose collation is empty and for which no template produced a value is absent.
C9_NoEmptyValues ==
  (op = "to_internal" /\ ret.exc = "None") =>
    /\ \A a \in DOMAIN ret.val : ret.val[a].t = "list" /\ Len(ret.val[a].v) >= 1
    /\ \A a \in MappedAttributes \ TemplateTargets :
         _collate_attribute_values_by_priority_order(NamesOf(a), arg) = Return(<<>>)
           => a \notin DOMAIN ret.val
    /\ \A i \in 1..Len(template_attributes) :
         LET a == template_attributes[i].name
         IN (/\ attribute_profile \in DOMAIN template_attributes[i].mappings
             /\ a \notin DOMAIN PlainPass.val
             /\ RenderAll(SelectTemplates(template_attributes[i].mappings[attribute_profile]),
                          DataBefore(i), <<>>) = Return(<<>>))
            => a \notin DOMAIN ret.val

\* a to_internal call returned with a configured attribute left out for want of
\* values while another attribute is in the result
C9_Witness ==
  /\ op = "to_internal" /\ ret.exc = "None"
  /\ "A" \in MappedAttributes /\ "A" \notin DOMAIN ret.val
  /\ Len(NamesOf("A")) > 0
  /\ _collate_attribute_values_by_priority_order(NamesOf("A"), arg) = Return(<<>>)
  /\ <<"x">> \in DOMAIN arg.v
  /\ "B" \in DOMAIN ret.val

\* ---- C6
\* what one resolved value adds to the collation; strict: every scalar counts
Contribution(val, strict) ==
  IF val.t = "list" THEN val.v
  ELSE IF val.t = "none" THEN <<>>
  ELSE IF strict \/ Truthy(val) THEN <<val>>
  ELSE <<>>

RECURSIVE Collation(_, _, _)
Collation(names, d, strict) ==
  IF names = <<>> THEN <<>>
  ELSE Contribution(Resolve(Split(Head(names), separator), d), strict)
         \o Collation(Tail(names), d, strict)

\* the attribute has the expected values: absent when there is none
HasValues(record, a, expected) ==
  IF expected = <<>> THEN a \notin DOMAIN record
  ELSE a \in DOMAIN record /\ record[a] = PyList(expected)

\* C6 as claimed: the value of A is the concatenation, in candidate order, of the
\* elements of each list, of each scalar itself, and of nothing for a missing value.
C6_CollationEveryScalar ==
  (op = "to_internal" /\ ret.exc = "None") =>
    \A a \in MappedAttributes :
      /\ HasValues(PlainPass.val, a, Collation(NamesOf(a), arg, TRUE))
      /\ a \notin TemplateTargets => HasValues(ret.val, a, Collation(NamesOf(a), arg, TRUE))

\* C6 amended: as claimed for lists, missing values and non-empty scalars; an
\* empty scalar (the empty string, an empty mapping) contributes nothing.  The
\* value is that of the plain mapping pass, and of the result for an attribute
\* without templates.
C6_Collation ==
  (op = "to_internal" /\ ret.exc = "None") =>
    \A a \in MappedAttributes :
      /\ HasValues(PlainPass.val, a, Collation(NamesOf(a), arg, FALSE))
      /\ a \notin TemplateTargets => HasValues(ret.val, a, Collation(NamesOf(a), arg, FALSE))

\* A maps to [x, y]; x is a list of two different values and y a scalar, and the
\* result has the three values in that order
C6_Witness ==
  /\ op = "to_internal" /\ ret.exc = "None" /\ template_attributes = <<>>
  /\ "A" \in MappedAttributes /\ NamesOf("A") = <<<<"x">>, <<"y">>>>
  /\ DOMAIN arg.v = {<<"x">>, <<"y">>}
  /\ arg.v[<<"x">>].t = "list" /\ Len(arg.v[<<"x">>].v) = 2
  /\ arg.v[<<"x">>].v[1] # arg.v[<<"x">>].v[2]
  /\ arg.v[<<"y">>] = PyStr(<<"v">>)
  /\ ret.val["A"] = PyList(arg.v[<<"x">>].v \o <<PyStr(<<"v">>)>>)

\* ---- C4
\* the call is from_internal(P, {A: [v]}) with X the only external name of A for P
\* and no templates configured
SingleValueCall ==
  /\ op = "from_internal" /\ template_attributes = <<>>
  /\ Len(arg) = 1 /\ Len(arg[1].value.v) = 1
  /\ arg[1].name \in MappedAttributes
  /\ Len(NamesOf(arg[1].name)) = 1

\* the record wraps [v] under the segments of X, and to_internal gives {A: [v]} back
RoundTrips ==
  LET a == arg[1].name
      X == NamesOf(a)[1]
  IN /\ ret = Return(Wrap(Split(X, separator), arg[1].value))
     /\ to_internal(from_internal_attributes, template_attributes, attribute_profile, ret.val)
          = Return(a :> arg[1].value)

\* no other attribute has, for the profile, an external name that is X, a leading
\* part of the path X, or a path that runs through X
NoOverlap ==
  LET a == arg[1].name
      X == Split(NamesOf(a)[1], separator)
  IN \A b \in MappedAttributes \ {a} : \A k \in 1..Len(NamesOf(b)) :
       LET Y == Split(NamesOf(b)[k], separator)
       IN ~IsPrefix(X, Y) /\ ~IsPrefix(Y, X)

\* C4 as claimed: the round trip holds for every configuration in which X is the
\* only external name of A for P.
C4_RoundTripAnyConfig == SingleValueCall => RoundTrips

\* C4 amended: the round trip holds when, in addition, no other internal attribute
\* has for P an external name that overlaps X.
C4_RoundTrip == (SingleValueCall /\ NoOverlap) => RoundTrips

\* A maps to the nested path x.y, B to y, and {A: [v]} has made the round trip
C4_Witness ==
  /\ SingleValueCall /\ NoOverlap /\ RoundTrips
  /\ attribute_profile = "saml"
  /\ arg[1].name = "A" /\ NamesOf("A") = <<<<"x", ".", "y">>>>
  /\ "B" \in MappedAttributes /\ NamesOf("B") = <<<<"y">>>>
  /\ ret.val = PyDict(<<"x">> :> PyDict(<<"y">> :> arg[1].value))

\* ---- C7
IsMapped(item) == item.name \in MappedAttributes

\* C7: an attribute without an entry for the profile is not in the output: every
\* key of a to_internal result has an entry for the profile (among the attributes
\* or the template attributes); every key of a from_internal result is the first
\* segment of the first external name of an input attribute with an entry for the
\* profile, and the input attributes without one change nothing in the result.
C7_NoMappingNoKey ==
  /\ (op = "to_internal" /\ ret.exc = "None") =>
       DOMAIN ret.val \subseteq MappedAttributes \cup TemplateTargets
  /\ (op = "from_internal" /\ ret.exc = "None") =>
       /\ \A k \in DOMAIN ret.val.v :
            \E i \in 1..Len(arg) :
              /\ arg[i].name \in MappedAttributes
              /\ Split(NamesOf(arg[i].name)[1], separator)[1] = k
       /\ ret = from_internal(from_internal_attributes, attribute_profile,
                              SelectSeq(arg, IsMapped))

\* from_internal was given A, which has an entry for the profile, and B, which is
\* configured for another profile only: the result has the key of A alone
C7_Witness ==
  /\ op = "from_internal" /\ ret.exc = "None"
  /\ Len(arg) = 2 /\ arg[1].name = "B" /\ arg[2].name = "A"
  /\ HasKey(from_internal_attributes, "B")
  /\ MappedAttributes = {"A"}
  /\ Cardinality(DOMAIN ret.val.v) = 1

\* ---- C8
\* the attribute that construction leaves in the table for an external name: the
\* last one in the configuration that lists the name for the profile
ListsName(i, name) ==
  /\ attribute_profile \in DOMAIN from_internal_attributes[i].mappings
  /\ \E k \in 1..Len(from_internal_attributes[i].mappings[attribute_profile]) :
       from_internal_attributes[i].mappings[attribute_profile][k] = name
Owner(name) ==
  from_internal_attributes[CHOOSE i \in 1..Len(from_internal_attributes) :
    ListsName(i, name) /\ \A j \in (i + 1)..Len(from_internal_attributes) : ~ListsName(j, name)].name
Owned(name) == \E i \in 1..Len(from_internal_attributes) : ListsName(i, name)

\* C8: to_internal_filter returns, without raising, a sequence without duplicates
\* whose elements are exactly the internal names of the given external names that
\* have an entry for the profile; it is empty for a profile that is not configured.
C8_Filter ==
  op = "to_internal_filter" =>
    /\ ret.exc = "None"
    /\ \A i, j \in 1..Len(ret.val) : ret.val[i] = ret.val[j] => i = j
    /\ {ret.val[i] : i \in 1..Len(ret.val)}
         = {Owner(arg[k]) : k \in {n \in 1..Len(arg) : Owned(arg[n])}}
    /\ MappedAttributes = {} => ret.val = <<>>

\* two different external names of the attribute A were given, and A is in the
\* result once
C8_Witness ==
  /\ op = "to_internal_filter"
  /\ Len(arg) = 2 /\ arg[1] # arg[2]
  /\ Owned(arg[1]) /\ Owned(arg[2])
  /\ ret.val = <<"A">>

====
